---------------------------- MODULE Spec2Model ----------------------------
(***************************************************************************)
(* Model of src/bin/cli.rs of hdpictureconverter-rs: the command-line      *)
(* front end that validates the two-letter variable prefix, derives the    *)
(* output path, asks the image component for tiles and a palette, frames   *)
(* them as entries of an in-memory tar archive and writes the archive      *)
(* gzip-compressed to one .8xg file.                                       *)
(*                                                                         *)
(* Strings are sequences of Unicode scalar values (code points), byte      *)
(* buffers are sequences of 0..255, a path is the sequence of its          *)
(* components.  main() is a sequential process; pc is its position.        *)
(***************************************************************************)
EXTENDS Integers, Sequences, FiniteSets, TLC

VARIABLES
    pc,             \* position of main()
    exit_code,      \* process exit status, -1 while running
    var_prefix_arg, \* raw command-line value of var_prefix
    image_file,     \* command-line value of image_file (path)
    out_dir,        \* command-line value of --outdir (path)
    var_prefix,     \* result of the var_prefix value parser
    out_path,       \* `out_path` of main
    io_log,         \* file-system calls made so far, in order
    image,          \* `image` of main (the image component's value)
    tile_idx,       \* number of tiles the `for tile in image.tiles()` loop has taken
    var_data,       \* `var_data` / `palette_data` of main
    header,         \* `header` / `pheader` of main (512 bytes)
    tar_buf,        \* `tar_buf` of main
    out_file,       \* content of the file at out_path
    encoder         \* `encoder` of main: bytes taken, items not yet written

vars == <<pc, exit_code, var_prefix_arg, image_file, out_dir, var_prefix,
          out_path, io_log, image, tile_idx, var_data, header, tar_buf,
          out_file, encoder>>

(***************************************************************************)
(* Bounds of the model.                                                    *)
(***************************************************************************)
MaxPrefixLen == 3   \* longest raw prefix tried against the validator
MaxArgLen == 2      \* longest raw prefix tried in a full run
MaxNameLen == 5     \* longest image file name tried
MaxTiles == 3       \* most tiles the image component enumerates

(***************************************************************************)
(* Generic helpers.                                                        *)
(***************************************************************************)
None == [some |-> FALSE]

Some(v) == [some |-> TRUE, v |-> v]

Min(a, b) == IF a < b THEN a ELSE b

Last(s) == s[Len(s)]

Front(s) == SubSeq(s, 1, Len(s) - 1)

SeqsUpTo(S, n) == UNION {[1..k -> S] : k \in 0..n}

Repeat(b, n) == [i \in 1..n |-> b]

\* Sum of s[lo..hi], by halving (recursion depth logarithmic in the length).
RECURSIVE SumRange(_, _, _)
SumRange(s, lo, hi) ==
    IF lo > hi THEN 0
    ELSE IF lo = hi THEN s[lo]
    ELSE LET mid == (lo + hi) \div 2
         IN SumRange(s, lo, mid) + SumRange(s, mid + 1, hi)

\* Code points used below.
NUL == 0
SPACE == 32
DOT == 46
DIGIT0 == 48

(***************************************************************************)
(* var_prefix_str (cli.rs 12-31).                                          *)
(***************************************************************************)
Ok(v) == [ok |-> TRUE, val |-> v]

Err(m) == [ok |-> FALSE, msg |-> m]

\* char::is_ascii_alphabetic: 'A'..='Z' | 'a'..='z'
is_ascii_alphanumeric(c) ==
    (c >= 65 /\ c <= 90) \/ (c >= 97 /\ c <= 122) \/ (c >= 48 /\ c <= 57)

is_ascii_alphabetic(c) == (c >= 65 /\ c <= 90) \/ (c >= 97 /\ c <= 122)

\* Number of bytes of the UTF-8 encoding of one scalar value.
utf8_len(c) == IF c < 128 THEN 1 ELSE IF c < 2048 THEN 2 ELSE IF c < 65536 THEN 3 ELSE 4

\* str::len: the length in bytes.
str_len(s) == SumRange([i \in 1..Len(s) |-> utf8_len(s[i])], 1, Len(s))

\* s.chars().count(): the number of scalar values.
chars_count(s) == Len(s)

WrongLengthFmt == "var_prefix must be exactly two characters, but is {}"

NonAlphabeticFmt == "{:?} at var_prefix position {} is not an alphabetic character"

\* The format! results keep the template and the values substituted into it.
var_prefix_str(s) ==
    LET len == chars_count(s)
    IN IF len # 2
       THEN Err([fmt |-> WrongLengthFmt, args |-> <<len>>])
       ELSE IF \E i \in 1..Len(s) : ~is_ascii_alphabetic(s[i])
            THEN LET i == CHOOSE j \in 1..Len(s) :
                              /\ ~is_ascii_alphabetic(s[j])
                              /\ \A k \in 1..(j - 1) : is_ascii_alphabetic(s[k])
                 \* enumerate() counts from 0
                 IN Err([fmt |-> NonAlphabeticFmt, args |-> <<s[i], i - 1>>])
            ELSE Ok(s)

(***************************************************************************)
(* Paths (cli.rs 77-83): std::path::Path::file_name, file_stem,            *)
(* PathBuf::push and PathBuf::set_extension on component sequences.        *)
(***************************************************************************)
CurDir == <<DOT>>

ParentDir == <<DOT, DOT>>

Ext8xg == <<56, 120, 103>>          \* "8xg"

Suffix8xv == <<DOT, 56, 120, 118>>  \* ".8xv"

DefaultStem == <<105, 109, 97, 103, 101>>  \* "image"

\* Path::file_name: the final component, if it is a normal one.
file_name(p) ==
    IF Len(p) = 0 \/ Last(p) = CurDir \/ Last(p) = ParentDir THEN None ELSE Some(Last(p))

HasDot(n) == \E i \in 1..Len(n) : n[i] = DOT

LastDot(n) == CHOOSE i \in 1..Len(n) : n[i] = DOT /\ \A j \in (i + 1)..Len(n) : n[j] # DOT

\* rsplit_file_at_dot followed by before.or(after): the part before the last
\* dot, the whole name when it has no dot or only a leading one.
name_stem(n) ==
    IF ~HasDot(n) THEN n
    ELSE IF LastDot(n) = 1 THEN n
    ELSE SubSeq(n, 1, LastDot(n) - 1)

\* Path::file_stem
file_stem(p) == IF file_name(p).some THEN Some(name_stem(file_name(p).v)) ELSE None

\* PathBuf::push of a relative single-component path; a "." component is
\* not a component of the result (Path::components normalises it away).
push(p, n) == IF n = CurDir THEN p ELSE Append(p, n)

\* PathBuf::set_extension: nothing without a file name; otherwise truncate
\* right after the file stem and add "." and the extension.
set_extension_append(p, ext) ==
    IF file_name(p).some THEN Append(Front(p), Last(p) \o <<DOT>> \o ext) ELSE p

set_extension(p, ext) ==
    IF file_stem(p).some THEN Append(Front(p), file_stem(p).v \o <<DOT>> \o ext) ELSE p

\* lines 77-83
compute_out_path(img, dir) ==
    LET out_file_name == IF file_stem(img).some THEN file_stem(img).v ELSE DefaultStem
    IN set_extension(push(dir, out_file_name), Ext8xg)

(***************************************************************************)
(* The image component (hdpictureconverter::Image), seen through the       *)
(* capabilities cli.rs uses: tiles() in enumeration order, appvar_name()   *)
(* and write_appvar() per tile, palette_appvar_name() and                  *)
(* write_palette_appvar().  Names are derived from the validated prefix    *)
(* and a tag of the component's choosing.                                  *)
(***************************************************************************)
BigRun == Repeat(170, 512)

TileKinds ==
    { [tag |-> <<48>>, data |-> <<>>],
      [tag |-> <<49>>, data |-> BigRun],
      [tag |-> <<50>>, data |-> BigRun \o <<171>>] }

PaletteKinds ==
    { [tag |-> <<80>>, data |-> <<>>],
      [tag |-> <<80>>, data |-> <<1, 2, 3>>] }

\* The images Image::new can return for a prefix.
Images(prefix) ==
    { [tiles |-> [i \in 1..Len(ts) |-> [name |-> prefix \o ts[i].tag, data |-> ts[i].data]],
       palette |-> [name |-> prefix \o p.tag, data |-> p.data],
       quantized |-> FALSE] :
      ts \in SeqsUpTo(TileKinds, MaxTiles), p \in PaletteKinds }

\* Image::quantize returns the image representation the tiles are taken from.
quantize(img) == [img EXCEPT !.quantized = TRUE]

(***************************************************************************)
(* tar::Header and tar::Builder as cli.rs drives them (lines 101-128).     *)
(* A header is one 512-byte block; offsets are those of the ustar/GNU      *)
(* layout (given 0-based, as in the format).                               *)
(***************************************************************************)
BLOCK == 512

NameOff == 0
ModeOff == 100
ModeLen == 8
SizeOff == 124
SizeLen == 12
MtimeOff == 136
MtimeLen == 12
CksumOff == 148
CksumLen == 8
MagicOff == 257

Mode644 == 420   \* 0o644

Field(h, off, len) == SubSeq(h, off + 1, off + len)

SetField(h, off, bytes) ==
    [i \in 1..Len(h) |->
        IF i > off /\ i <= off + Len(bytes) THEN bytes[i - off] ELSE h[i]]

RECURSIVE Pow8(_)
Pow8(n) == IF n = 0 THEN 1 ELSE 8 * Pow8(n - 1)

\* octal_into: the octal digits right-aligned and zero-padded, then a NUL.
octal_into(len, val) ==
    [i \in 1..len |->
        IF i = len THEN NUL ELSE DIGIT0 + ((val \div Pow8(len - 1 - i)) % 8)]

\* Header::new_gnu: zeroed block, magic "ustar ", version " \0", mtime 0.
new_gnu ==
    LET zero == Repeat(NUL, BLOCK)
        magic == SetField(zero, MagicOff, <<117, 115, 116, 97, 114, SPACE, SPACE, NUL>>)
    IN SetField(magic, MtimeOff, octal_into(MtimeLen, 0))

set_size_plus_one(h, n) == SetField(h, SizeOff, octal_into(SizeLen, n + 1))

\* Header::set_size
set_size(h, n) == SetField(h, SizeOff, octal_into(SizeLen, n))

\* Header::set_mode
set_mode(h, m) == SetField(h, ModeOff, octal_into(ModeLen, m))

\* Header::calculate_cksum: the sum of the block's bytes with the checksum
\* field taken as eight spaces.
calculate_cksum(h) ==
    SumRange(h, 1, CksumOff) + CksumLen * SPACE + SumRange(h, CksumOff + CksumLen + 1, Len(h))

\* Header::set_cksum
set_cksum(h) == SetField(h, CksumOff, octal_into(CksumLen, calculate_cksum(h)))

\* Header::set_path inside Builder::append_data, for a name that fits the
\* name field (appvar names are at most 8 characters, plus ".8xv").
set_path(h, path) == SetField(h, NameOff, path)

\* The checksum step of Builder::append_data, after the path is set.
keep_cksum(h) == h

append_data_cksum(h) == set_cksum(h)

Padding(n) == IF n % BLOCK = 0 THEN <<>> ELSE Repeat(NUL, BLOCK - (n % BLOCK))

prepend(buf, h, data) == h \o data \o Padding(Len(data)) \o buf

\* Builder::append: the header block, the data, zero padding to a block.
append(buf, h, data) == buf \o h \o data \o Padding(Len(data))

\* Builder::finish: two zero blocks end the archive.
finish(buf) == buf \o Repeat(NUL, 2 * BLOCK)

\* format!("{}.8xv", name)
entry_name(name) == name \o Suffix8xv

(***************************************************************************)
(* flate2::write::GzEncoder over the output file (lines 134-137).  The     *)
(* gzip member is kept as its items: the member header, the DEFLATE        *)
(* stream as its literal / <length, distance> symbols, and the trailer     *)
(* with ISIZE (the input length).  The symbols are those of a match        *)
(* finder that uses distance-1 matches of 3..258 bytes; the CRC-32 of the  *)
(* trailer is not represented.                                             *)
(***************************************************************************)
MinMatch == 3
MaxMatch == 258

GzHeader == [t |-> "hdr", a |-> 0, b |-> 0]

Lit(x) == [t |-> "lit", a |-> x, b |-> 0]

Match(len, dist) == [t |-> "match", a |-> len, b |-> dist]

GzTrailer(isize) == [t |-> "ftr", a |-> isize, b |-> 0]

\* Last position of the run of equal bytes that holds position i, up to hi.
RunEnd(s, i, hi) ==
    CHOOSE e \in i..hi :
        /\ e = hi \/ s[e + 1] # s[i]
        /\ \A k \in i..e : s[k] = s[i]

\* First position of the run of equal bytes that holds position i, from lo.
RunStart(s, i, lo) ==
    CHOOSE b \in lo..i :
        /\ b = lo \/ s[b - 1] # s[i]
        /\ \A k \in b..i : s[k] = s[i]

\* A run of n bytes x: the byte as a literal, then the other n - 1 bytes as
\* distance-1 matches of at most MaxMatch, a rest below MinMatch as literals.
EncodeRun(x, n) ==
    LET q == (n - 1) \div MaxMatch
        r == (n - 1) % MaxMatch
    IN <<Lit(x)>> \o [i \in 1..q |-> Match(MaxMatch, 1)]
                  \o (IF r >= MinMatch THEN <<Match(r, 1)>> ELSE [i \in 1..r |-> Lit(x)])

\* The symbols for s[lo..hi], a range of whole runs, by halving at a run
\* boundary (which bounds the depth of the recursion, not the result).
RECURSIVE DeflateRange(_, _, _)
DeflateRange(s, lo, hi) ==
    IF lo > hi THEN <<>>
    ELSE LET mid == (lo + hi) \div 2
             e == RunEnd(s, mid, hi)
             b == RunStart(s, mid, lo)
         IN IF e < hi THEN DeflateRange(s, lo, e) \o DeflateRange(s, e + 1, hi)
            ELSE IF b > lo THEN DeflateRange(s, lo, b - 1) \o EncodeRun(s[b], hi - b + 1)
            ELSE EncodeRun(s[lo], hi - lo + 1)

deflate(s) == DeflateRange(s, 1, Len(s))

NewEncoder == [total_in |-> 0, pending |-> <<GzHeader>>]

\* io::Write::write taking one block of the buffer only.
encoder_write(enc, buf) ==
    LET part == SubSeq(buf, 1, Min(Len(buf), BLOCK))
    IN [total_in |-> enc.total_in + Len(part), pending |-> enc.pending \o deflate(part)]

\* encoder.write_all(&tar_buf): the encoder takes the whole buffer.
encoder_write_all(enc, buf) ==
    [total_in |-> enc.total_in + Len(buf), pending |-> enc.pending \o deflate(buf)]

\* encoder.finish(): what is still pending, then the trailer.  ISIZE is the
\* input length modulo 2^32; the archives here are far shorter than 2^32.
encoder_finish(enc) == enc.pending \o <<GzTrailer(enc.total_in)>>

\* The file at out_path: whether it exists, and its content.
Absent == [exists |-> FALSE, items |-> <<>>]

File(items) == [exists |-> TRUE, items |-> items]

StaleFile == File(<<GzHeader, Lit(7)>>)   \* left by an earlier run

(***************************************************************************)
(* Inputs.                                                                 *)
(***************************************************************************)
\* '1', '@', 'A', 'Z', '[', 'a', 'z', U+00E9 (two bytes in UTF-8)
PrefixAlphabet == {49, 64, 65, 90, 91, 97, 122, 233}

ArgAlphabet == {49, 97}                     \* '1', 'a'

NameAlphabet == {DOT, 102, 112}             \* '.', 'f', 'p'

FooPng == <<102, 111, 111, DOT, 112, 110, 103>>   \* "foo.png"

TmpDir == <<116, 109, 112>>                 \* "tmp"

\* File names: every non-empty name but ".", which is no component of a path.
FileNames == SeqsUpTo(NameAlphabet, MaxNameLen) \ {<<>>, CurDir}

PathInputs == {<<n>> : n \in FileNames} \cup {<<TmpDir, n>> : n \in FileNames}

Start(prefixes, files, dirs) ==
    /\ pc = "start"
    /\ exit_code = -1
    /\ var_prefix_arg \in prefixes
    /\ image_file \in files
    /\ out_dir \in dirs
    /\ var_prefix = None
    /\ out_path = None
    /\ io_log = <<>>
    /\ image = None
    /\ tile_idx = 0
    /\ var_data = <<>>
    /\ header = <<>>
    /\ tar_buf = <<>>
    /\ out_file \in {Absent, StaleFile}
    /\ encoder = None

Init == Start(SeqsUpTo(ArgAlphabet, MaxArgLen), {<<FooPng>>, <<ParentDir>>}, {<<TmpDir>>})

InitValidate == Start(SeqsUpTo(PrefixAlphabet, MaxPrefixLen), {<<FooPng>>}, {<<TmpDir>>})

InitPath == Start({<<97, 97>>}, PathInputs, {<<CurDir>>, <<TmpDir>>})

(***************************************************************************)
(* main (cli.rs 53-140), one action per statement.                         *)
(***************************************************************************)
Goto(l) == pc' = l

\* The process ends in failure: clap's exit(2), a panic (101) or main
\* returning Err (1).
AbortZero(code) == pc' = "aborted" /\ exit_code' = 0

Abort(code) == pc' = "aborted" /\ exit_code' = code

\* 54-73: get_matches() runs the value parsers; a parser error ends the
\* process with clap's usage error.
ParseArgsUnchecked ==
    /\ pc = "start"
    /\ var_prefix' = Ok(var_prefix_arg)
    /\ Goto("out_path") /\ UNCHANGED exit_code
    /\ UNCHANGED <<var_prefix_arg, image_file, out_dir, out_path, io_log, image,
                   tile_idx, var_data, header, tar_buf, out_file, encoder>>

ParseArgs ==
    /\ pc = "start"
    /\ var_prefix' = var_prefix_str(var_prefix_arg)
    /\ IF var_prefix'.ok THEN Goto("out_path") /\ UNCHANGED exit_code ELSE Abort(2)
    /\ UNCHANGED <<var_prefix_arg, image_file, out_dir, out_path, io_log, image,
                   tile_idx, var_data, header, tar_buf, out_file, encoder>>

\* 77-83
OutPath ==
    /\ pc = "out_path"
    /\ out_path' = compute_out_path(image_file, out_dir)
    /\ Goto("open")
    /\ UNCHANGED <<exit_code, var_prefix_arg, image_file, out_dir, var_prefix, io_log,
                   image, tile_idx, var_data, header, tar_buf, out_file, encoder>>

\* 87: File::open(&image_file)?
OpenImage ==
    /\ pc = "open"
    /\ io_log' = Append(io_log, "open_input")
    /\ \/ Goto("image_new") /\ UNCHANGED exit_code
       \/ Abort(1)
    /\ UNCHANGED <<var_prefix_arg, image_file, out_dir, var_prefix, out_path, image,
                   tile_idx, var_data, header, tar_buf, out_file, encoder>>

\* 88-93: file_name().unwrap() panics without a file name; Image::new reads
\* the file and returns an image or a decode error.
ImageNew ==
    /\ pc = "image_new"
    /\ IF ~file_name(image_file).some
       THEN Abort(101) /\ UNCHANGED <<io_log, image>>
       ELSE /\ io_log' = Append(io_log, "read_input")
            /\ \/ \E img \in Images(var_prefix.val) :
                     image' = Some(img) /\ Goto("quantize") /\ UNCHANGED exit_code
               \/ Abort(1) /\ UNCHANGED image
    /\ UNCHANGED <<var_prefix_arg, image_file, out_dir, var_prefix, out_path,
                   tile_idx, var_data, header, tar_buf, out_file, encoder>>

\* 96
Quantize ==
    /\ pc = "quantize"
    /\ image' = Some(quantize(image.v))
    /\ Goto("tiles_next")
    /\ UNCHANGED <<exit_code, var_prefix_arg, image_file, out_dir, var_prefix, out_path,
                   io_log, tile_idx, var_data, header, tar_buf, out_file, encoder>>

\* 104: the iterator yields the next tile, or the loop ends.
TilesNext ==
    /\ pc = "tiles_next"
    /\ IF tile_idx < Len(image.v.tiles)
       THEN tile_idx' = tile_idx + 1 /\ Goto("tile_write_appvar")
       ELSE UNCHANGED tile_idx /\ Goto("palette_write")
    /\ UNCHANGED <<exit_code, var_prefix_arg, image_file, out_dir, var_prefix, out_path,
                   io_log, image, var_data, header, tar_buf, out_file, encoder>>

\* 106-108 / 119-121: render the payload into a fresh buffer.
Render(from, data, to) ==
    /\ pc = from
    /\ \/ var_data' = data /\ Goto(to) /\ UNCHANGED exit_code
       \/ Abort(1) /\ UNCHANGED var_data
    /\ UNCHANGED <<var_prefix_arg, image_file, out_dir, var_prefix, out_path, io_log,
                   image, tile_idx, header, tar_buf, out_file, encoder>>

\* One statement on the header.
HeaderStep(from, h, to) ==
    /\ pc = from
    /\ header' = h
    /\ Goto(to)
    /\ UNCHANGED <<exit_code, var_prefix_arg, image_file, out_dir, var_prefix, out_path,
                   io_log, image, tile_idx, var_data, tar_buf, out_file, encoder>>

\* The first step of Builder::append_data: the path goes into the header,
\* or is refused (an error of prepare_header_path).
PathStep(from, name, to) ==
    /\ pc = from
    /\ \/ header' = set_path(header, name) /\ Goto(to) /\ UNCHANGED exit_code
       \/ Abort(1) /\ UNCHANGED header
    /\ UNCHANGED <<var_prefix_arg, image_file, out_dir, var_prefix, out_path, io_log,
                   image, tile_idx, var_data, tar_buf, out_file, encoder>>

\* The write of Builder::append_data (into a Vec, which takes every write).
AppendStep(from, to) ==
    /\ pc = from
    /\ tar_buf' = append(tar_buf, header, var_data)
    /\ Goto(to)
    /\ UNCHANGED <<exit_code, var_prefix_arg, image_file, out_dir, var_prefix, out_path,
                   io_log, image, tile_idx, var_data, header, out_file, encoder>>

TileWriteAppvar == Render("tile_write_appvar", image.v.tiles[tile_idx].data, "tile_header")

TileHeaderNew == HeaderStep("tile_header", new_gnu, "tile_set_size")             \* 110

TileSetSize == HeaderStep("tile_set_size", set_size(header, Len(var_data)), "tile_set_mode")  \* 111

TileSetMode == HeaderStep("tile_set_mode", set_mode(header, Mode644), "tile_set_cksum")      \* 112

TileSetCksum == HeaderStep("tile_set_cksum", set_cksum(header), "tile_append_path")          \* 113

\* 114: append_data sets the path, recomputes the checksum, then writes.
TileAppendPath ==
    PathStep("tile_append_path", entry_name(image.v.tiles[tile_idx].name), "tile_append_cksum")

TileAppendCksum == HeaderStep("tile_append_cksum", append_data_cksum(header), "tile_append_write")

TileAppendWrite == AppendStep("tile_append_write", "tiles_next")

PaletteWrite == Render("palette_write", image.v.palette.data, "palette_header")

PaletteHeaderNew == HeaderStep("palette_header", new_gnu, "palette_set_size")       \* 122

PaletteSetSize ==
    HeaderStep("palette_set_size", set_size(header, Len(var_data)), "palette_set_mode")       \* 123

PaletteSetMode == HeaderStep("palette_set_mode", set_mode(header, Mode644), "palette_set_cksum")  \* 124

PaletteSetCksum == HeaderStep("palette_set_cksum", set_cksum(header), "palette_append_path")  \* 125

\* 126
PaletteAppendPath ==
    PathStep("palette_append_path", entry_name(image.v.palette.name), "palette_append_cksum")

PaletteAppendCksum ==
    HeaderStep("palette_append_cksum", append_data_cksum(header), "palette_append_write")

PaletteAppendWrite == AppendStep("palette_append_write", "tar_finish")

\* 128-130 (the trailer goes into the Vec as well)
TarFinish ==
    /\ pc = "tar_finish"
    /\ tar_buf' = finish(tar_buf)
    /\ Goto("create")
    /\ UNCHANGED <<exit_code, var_prefix_arg, image_file, out_dir, var_prefix, out_path,
                   io_log, image, tile_idx, var_data, header, out_file, encoder>>

\* 134-135: File::create truncates or creates the file; the encoder wraps it.
CreateOut ==
    /\ pc = "create"
    /\ io_log' = Append(io_log, "create_output")
    /\ \/ out_file' = File(<<>>) /\ encoder' = NewEncoder /\ Goto("write_all") /\ UNCHANGED exit_code
       \/ Abort(1) /\ UNCHANGED <<out_file, encoder>>
    /\ UNCHANGED <<var_prefix_arg, image_file, out_dir, var_prefix, out_path, image,
                   tile_idx, var_data, header, tar_buf>>

\* What a writer has passed on to the file when it holds `items`: nothing,
\* half, or all of them.
Flushed(items) == {0, Len(items) \div 2, Len(items)}

\* 136: the encoder takes the buffer; part of its output reaches the file.
\* On an error the file keeps what had been written.
WriteAll ==
    /\ pc = "write_all"
    /\ io_log' = Append(io_log, "write_output")
    /\ \E enc \in {encoder_write_all(encoder, tar_buf)} :
         \E k \in Flushed(enc.pending) :
            /\ out_file' = File(out_file.items \o SubSeq(enc.pending, 1, k))
            /\ encoder' = [enc EXCEPT !.pending = SubSeq(enc.pending, k + 1, Len(enc.pending))]
            /\ \/ Goto("enc_finish") /\ UNCHANGED exit_code
               \/ k < Len(enc.pending) /\ Abort(1)
    /\ UNCHANGED <<var_prefix_arg, image_file, out_dir, var_prefix, out_path, image,
                   tile_idx, var_data, header, tar_buf>>

\* 137: encoder.finish() writes what is pending and the trailer.
EncFinish ==
    /\ pc = "enc_finish"
    /\ io_log' = Append(io_log, "write_output")
    /\ \E rest \in {encoder_finish(encoder)} :
          \/ /\ out_file' = File(out_file.items \o rest)
             /\ encoder' = None
             /\ Goto("return") /\ UNCHANGED exit_code
          \/ /\ \E k \in Flushed(rest) :
                   k < Len(rest) /\ out_file' = File(out_file.items \o SubSeq(rest, 1, k))
             /\ encoder' = None
             /\ Abort(1)
    /\ UNCHANGED <<var_prefix_arg, image_file, out_dir, var_prefix, out_path, image,
                   tile_idx, var_data, header, tar_buf>>

\* 139: Ok(())
ReturnOk ==
    /\ pc = "return"
    /\ pc' = "done"
    /\ exit_code' = 0
    /\ UNCHANGED <<var_prefix_arg, image_file, out_dir, var_prefix, out_path, io_log, image,
                   tile_idx, var_data, header, tar_buf, out_file, encoder>>

Next ==
    \/ ParseArgs \/ OutPath \/ OpenImage \/ ImageNew \/ Quantize \/ TilesNext
    \/ TileWriteAppvar \/ TileHeaderNew \/ TileSetSize \/ TileSetMode \/ TileSetCksum
    \/ TileAppendPath \/ TileAppendCksum \/ TileAppendWrite
    \/ PaletteWrite \/ PaletteHeaderNew \/ PaletteSetSize \/ PaletteSetMode
    \/ PaletteSetCksum \/ PaletteAppendPath \/ PaletteAppendCksum \/ PaletteAppendWrite
    \/ TarFinish \/ CreateOut \/ WriteAll \/ EncFinish \/ ReturnOk

Spec == Init /\ [][Next]_vars

\* The validator alone, over every raw prefix up to MaxPrefixLen.
SpecValidate == InitValidate /\ [][ParseArgs]_vars

\* Argument parsing and the output path, over every image file name up to
\* MaxNameLen.
SpecPath == InitPath /\ [][ParseArgs \/ OutPath]_vars

(***************************************************************************)
(* The reading side, used to state the properties: a tar reader and a      *)
(* gzip reader over the structures written above.                          *)
(***************************************************************************)
ZeroBlock == Repeat(NUL, BLOCK)

\* The bytes of a field before its first NUL.
CStr(f) ==
    IF \E i \in 1..Len(f) : f[i] = NUL
    THEN SubSeq(f, 1, (CHOOSE i \in 1..Len(f) : f[i] = NUL /\ \A j \in 1..(i - 1) : f[j] # NUL) - 1)
    ELSE f

\* The value of an octal field, -1 when it is not octal digits.
octal_from(f) ==
    LET d == CStr(f)
    IN IF Len(d) = 0 \/ \E i \in 1..Len(d) : d[i] < DIGIT0 \/ d[i] > DIGIT0 + 7
       THEN -1
       ELSE SumRange([i \in 1..Len(d) |-> (d[i] - DIGIT0) * Pow8(Len(d) - i)], 1, Len(d))

RoundUp(n) == ((n + BLOCK - 1) \div BLOCK) * BLOCK

\* The entries of an archive from byte offset off on, as a reader walks
\* them: header block, size bytes of data, padding; a zero block or the end
\* of the buffer ends the walk, an unreadable header ends it with ok = FALSE.
RECURSIVE ReadEntries(_, _)
ReadEntries(buf, off) ==
    IF off + BLOCK > Len(buf) THEN <<>>
    ELSE LET h == SubSeq(buf, off + 1, off + BLOCK)
             size == octal_from(Field(h, SizeOff, SizeLen))
             base == [name |-> CStr(Field(h, NameOff, 100)),
                      size |-> size,
                      mode |-> octal_from(Field(h, ModeOff, ModeLen)),
                      cksum_ok |-> octal_from(Field(h, CksumOff, CksumLen)) = calculate_cksum(h)]
         IN IF h = ZeroBlock THEN <<>>
            ELSE IF size < 0 \/ off + BLOCK + size > Len(buf)
            THEN <<[ok |-> FALSE, data |-> <<>>] @@ base>>
            ELSE <<[ok |-> TRUE, data |-> SubSeq(buf, off + BLOCK + 1, off + BLOCK + size)] @@ base>>
                 \o ReadEntries(buf, off + BLOCK + RoundUp(size))

\* One symbol of Inflate: a literal adds its byte, a match copies `a` bytes
\* from `b` back (an overlapping copy repeats the last b bytes).
InflateStep(x, out) ==
    IF x.t = "lit" THEN Append(out, x.a)
    ELSE out \o [k \in 1..x.a |-> out[Len(out) - x.b + 1 + ((k - 1) % x.b)]]

\* Inflate of items[lo..hi] after `out`, left to right.  Halving bounds the
\* depth of the recursion; the test on Len(out) has the output so far
\* computed before the symbols that follow it are taken.
RECURSIVE Inflate(_, _, _, _)
Inflate(items, lo, hi, out) ==
    IF lo > hi \/ Len(out) < 0 THEN out
    ELSE IF lo = hi THEN InflateStep(items[lo], out)
    ELSE LET mid == (lo + hi) \div 2
         IN Inflate(items, mid + 1, hi, Inflate(items, lo, mid, out))

\* Decompression of a file: a complete member (header, symbols, trailer)
\* whose ISIZE matches yields its bytes.
Gunzip(f) ==
    LET n == Len(f.items)
        body == SubSeq(f.items, 2, n - 1)
    IN IF /\ f.exists /\ n >= 2 /\ f.items[1] = GzHeader /\ f.items[n].t = "ftr"
          /\ \A i \in 1..Len(body) : body[i].t \in {"lit", "match"}
       THEN LET bytes == Inflate(body, 1, Len(body), <<>>)
            IN IF Len(bytes) = f.items[n].a THEN Some(bytes) ELSE None
       ELSE None

\* The payloads of a run in the order the image component gives them: the
\* tiles as enumerated, then the palette.
Payloads == Append(image.v.tiles, image.v.palette)

\* Byte offset of the k-th entry's header, from the lengths of the payloads
\* before it.
EntryStart(k) ==
    SumRange([j \in 1..(k - 1) |-> BLOCK + RoundUp(Len(Payloads[j].data))], 1, k - 1)

\* The k-th entry has been written to tar_buf in full.
Written(k) == EntryStart(k + 1) <= Len(tar_buf)

HeaderAt(k) == SubSeq(tar_buf, EntryStart(k) + 1, EntryStart(k) + BLOCK)

Assembled == pc \in {"create", "write_all", "enc_finish", "return", "done"}

HeaderPcs ==
    {"tile_set_size", "tile_set_mode", "tile_set_cksum", "tile_append_path",
     "tile_append_cksum", "tile_append_write",
     "palette_set_size", "palette_set_mode", "palette_set_cksum", "palette_append_path",
     "palette_append_cksum", "palette_append_write"}

IsLetter(c) == c \in (65..90) \cup (97..122)

TwoLetters(s) == Len(s) = 2 /\ \A i \in 1..Len(s) : IsLetter(s[i])

Count(log, op) == Cardinality({i \in 1..Len(log) : log[i] = op})

(***************************************************************************)
(* Properties.                                                             *)
(***************************************************************************)

\* C1: the prefix validator succeeds, returning its input unchanged, exactly
\* when the input has two characters (scalar values) and both are ASCII
\* letters.
C1_ValidatorIff ==
    pc # "start" =>
        /\ var_prefix.ok <=> TwoLetters(var_prefix_arg)
        /\ var_prefix.ok => var_prefix.val = var_prefix_arg

\* A mixed-case two-letter prefix has been accepted.
C1_Witness == pc = "out_path" /\ var_prefix_arg = <<97, 90>> /\ var_prefix = Ok(<<97, 90>>)

\* C2: a rejected prefix is reported by the rule it breaks: a character
\* count other than 2 as the wrong-length message with that count; a count
\* of 2 as the non-alphabetic message with an offending character and its
\* 0-based index.
C2_FailureKind ==
    (pc # "start" /\ ~var_prefix.ok) =>
        LET m == var_prefix.msg
        IN IF Len(var_prefix_arg) # 2
           THEN m.fmt = WrongLengthFmt /\ m.args = <<Len(var_prefix_arg)>>
           ELSE /\ m.fmt = NonAlphabeticFmt
                /\ ~IsLetter(m.args[1])
                /\ m.args[2] \in 0..1
                /\ var_prefix_arg[m.args[2] + 1] = m.args[1]

\* A single two-byte character has been rejected as one character.
C2_Witness ==
    /\ pc = "aborted"
    /\ var_prefix_arg = <<233>>
    /\ var_prefix = Err([fmt |-> WrongLengthFmt, args |-> <<1>>])

\* C3: a run whose prefix fails validation makes no file-system call: the
\* input is never opened, the output never created.
C3_BadPrefixNoIO ==
    ~TwoLetters(var_prefix_arg) =>
        /\ io_log = <<>>
        /\ pc \in {"start", "aborted"}
        /\ out_file \in {Absent, StaleFile}

\* The prefix "a1" has been rejected with the usage error.
C3_Witness ==
    pc = "aborted" /\ var_prefix_arg = <<97, 49>> /\ exit_code = 2 /\ io_log = <<>>

\* C4: the assembled archive holds N+1 entries, the tiles in enumeration
\* order, each named appvar name + ".8xv", then the palette entry.
C4_EntryOrder ==
    Assembled =>
        LET es == ReadEntries(tar_buf, 0)
            n == Len(image.v.tiles)
        IN /\ Len(es) = n + 1
           /\ \A i \in 1..n :
                /\ es[i].name = image.v.tiles[i].name \o Suffix8xv
                /\ es[i].data = image.v.tiles[i].data
           /\ es[n + 1].name = image.v.palette.name \o Suffix8xv
           /\ es[n + 1].data = image.v.palette.data

\* Three tiles whose sizes are not in sorted order have been assembled.
C4_Witness ==
    /\ pc = "create"
    /\ Len(image.v.tiles) = 3
    /\ Len(image.v.tiles[1].data) > Len(image.v.tiles[2].data)
    /\ Len(image.v.tiles[2].data) < Len(image.v.tiles[3].data)
    /\ Len(ReadEntries(tar_buf, 0)) = 4

\* C5: after a successful run the output file decompresses to exactly
\* tar_buf, and tar_buf decodes to the payloads, identical in name, length
\* and bytes, in the same order.
C5_RoundTrip ==
    exit_code = 0 =>
        LET es == ReadEntries(tar_buf, 0)
        IN /\ Gunzip(out_file) = Some(tar_buf)
           /\ Len(es) = Len(Payloads)
           /\ \A i \in 1..Len(es) :
                /\ es[i].ok
                /\ es[i].name = Payloads[i].name \o Suffix8xv
                /\ es[i].size = Len(Payloads[i].data)
                /\ es[i].data = Payloads[i].data

\* A run with a block-sized tile and a tile one byte longer has succeeded.
C5_Witness ==
    /\ pc = "done"
    /\ exit_code = 0
    /\ Len(image.v.tiles) >= 2
    /\ Len(image.v.tiles[1].data) = BLOCK
    /\ Len(image.v.tiles[2].data) = BLOCK + 1
    /\ Gunzip(out_file).some

\* C6: the size recorded in the header of every entry written so far is the
\* number of payload bytes written after it, and those bytes are the payload.
C6_LengthIntegrity ==
    image.some =>
        \A k \in 1..Len(Payloads) :
            Written(k) =>
                /\ octal_from(Field(HeaderAt(k), SizeOff, SizeLen)) = Len(Payloads[k].data)
                /\ SubSeq(tar_buf, EntryStart(k) + BLOCK + 1,
                          EntryStart(k) + BLOCK + Len(Payloads[k].data)) = Payloads[k].data

\* An archive of no tiles and an empty palette payload has been assembled
\* and written.
C6_Witness ==
    /\ pc = "done"
    /\ image.v.tiles = <<>>
    /\ image.v.palette.data = <<>>
    /\ Len(tar_buf) = 3 * BLOCK
    /\ octal_from(Field(HeaderAt(1), SizeOff, SizeLen)) = 0

\* A file name of dot-separated non-empty parts, such as foo.png or
\* foo.bar.png.
Ordinary(n) ==
    /\ n[1] # DOT /\ Last(n) # DOT
    /\ \A i \in 1..(Len(n) - 1) : ~(n[i] = DOT /\ n[i + 1] = DOT)

\* C7: the output path is out_dir/stem.8xg, stem being the image's file name
\* without its final extension (stated here for ordinary file names).
C7_DeterministicNaming ==
    (pc = "open" /\ file_name(image_file).some /\ Ordinary(file_name(image_file).v)) =>
        out_path = Append(out_dir, name_stem(file_name(image_file).v) \o <<DOT>> \o Ext8xg)

\* C9 as stated: whenever the header under construction carries a computed
\* checksum, its size, mode and entry name have been set.
C9_CksumNeverEarly ==
    (pc \in HeaderPcs /\ Field(header, CksumOff, CksumLen) # Repeat(NUL, CksumLen)) =>
        /\ octal_from(Field(header, SizeOff, SizeLen)) = Len(var_data)
        /\ octal_from(Field(header, ModeOff, ModeLen)) = Mode644
        /\ CStr(Field(header, NameOff, 100)) # <<>>

\* C9 amended: the checksum that is written covers the final fields.  When
\* append_data is about to write, and in every header written, the checksum
\* field is the checksum of the block, whose size, mode and entry name are
\* the final ones.
C9_WrittenCksumFinal ==
    /\ pc \in {"tile_append_write", "palette_append_write"} =>
          /\ octal_from(Field(header, CksumOff, CksumLen)) = calculate_cksum(header)
          /\ octal_from(Field(header, SizeOff, SizeLen)) = Len(var_data)
          /\ octal_from(Field(header, ModeOff, ModeLen)) = Mode644
          /\ CStr(Field(header, NameOff, 100)) =
                (IF pc = "tile_append_write"
                 THEN image.v.tiles[tile_idx].name ELSE image.v.palette.name) \o Suffix8xv
    /\ image.some =>
          \A k \in 1..Len(Payloads) :
              Written(k) =>
                  LET h == HeaderAt(k)
                  IN /\ octal_from(Field(h, CksumOff, CksumLen)) = calculate_cksum(h)
                     /\ octal_from(Field(h, SizeOff, SizeLen)) = Len(Payloads[k].data)
                     /\ octal_from(Field(h, ModeOff, ModeLen)) = Mode644
                     /\ CStr(Field(h, NameOff, 100)) = Payloads[k].name \o Suffix8xv

\* A tile header is about to be written with the checksum that append_data
\* computed, which differs from the one line 113 computed.
C9_Witness ==
    /\ pc = "tile_append_write"
    /\ octal_from(Field(header, CksumOff, CksumLen)) = calculate_cksum(header)
    /\ calculate_cksum(header) # calculate_cksum(set_path(header, Repeat(NUL, 100)))

Stage ==
    CASE pc = "start" -> 0
      [] pc \in {"out_path", "open", "image_new"} -> 1
      [] pc = "quantize" -> 2
      [] pc \in {"create", "write_all", "enc_finish"} -> 4
      [] pc = "return" -> 5
      [] pc = "done" -> 6
      [] pc = "aborted" -> 7
      [] OTHER -> 3

\* The archive in tar_buf is complete: every entry and the trailer.
TarComplete ==
    /\ image.some
    /\ Len(ReadEntries(tar_buf, 0)) = Len(Payloads)
    /\ Len(tar_buf) = EntryStart(Len(Payloads) + 1) + 2 * BLOCK

\* C10: the stages run in order; a failure ends the run, nothing runs after
\* it and no call is repeated; status zero is given only when the compressed
\* stream has its trailer; the output file is created, and changes, only
\* once tar_buf holds every entry and the trailer.
C10_StageOrder ==
    /\ [](/\ exit_code = 0 =>
               /\ pc = "done"
               /\ out_file.exists /\ Len(out_file.items) > 0
               /\ Last(out_file.items).t = "ftr"
          /\ pc = "aborted" => exit_code \in {1, 2, 101}
          /\ Count(io_log, "open_input") <= 1
          /\ Count(io_log, "read_input") <= 1
          /\ Count(io_log, "create_output") <= 1
          /\ Count(io_log, "create_output") = 1 => TarComplete)
    /\ [][/\ pc \notin {"aborted", "done"}
          /\ pc' = "aborted" \/ Stage' \in {Stage, Stage + 1}
          /\ out_file' # out_file => (Stage = 4 /\ TarComplete)]_vars

\* A run has failed during assembly, after one entry was written, and left
\* an existing output file as it was.
C10_Witness ==
    /\ pc = "aborted"
    /\ exit_code = 1
    /\ Len(tar_buf) > 0
    /\ out_file = StaleFile
    /\ io_log = <<"open_input", "read_input">>

=============================================================================
